---- MODULE Spec2Model ----
(***************************************************************************)
(* School management REST API: the registration transaction               *)
(* (routes/auth.js), login and token issuance, the auth guard             *)
(* (middleware), the students router (list, get, update, delete) and the  *)
(* router mounting of index.js, over a relational store with the schema   *)
(* students / guardians.                                                   *)
(*                                                                         *)
(* The store is PostgreSQL at its default isolation level READ COMMITTED:  *)
(* a statement sees the rows committed when it starts plus the rows of its *)
(* own transaction; an INSERT or UPDATE whose unique key collides with an  *)
(* uncommitted row of another transaction waits for that transaction.      *)
(***************************************************************************)
EXTENDS Integers, FiniteSets, Sequences, TLC

(* ------------------------------ bounds -------------------------------- *)

\* Registration requests over a run; all of them may be in flight together.
NumRegs == 2
\* Clock ticks over a run.
MaxTicks == 2
\* Largest page number and page size a list request asks for.
MaxPage == 3
MaxLimit == 2
\* Fields one update body supplies at most.
MaxUpdateFields == 2
\* Schedules created over a run.
MaxSchedules == 2

(* ------------------------- program constants -------------------------- *)

\* jwt.sign(..., { expiresIn: '1h' }) in seconds.
ExpiresIn == 3600
\* Seconds the clock advances per tick of the model.
TickSeconds == ExpiresIn \div 2

Undefined == "undefined"

Regs == 1..NumRegs

Emails == {"s1@x", "s2@x"}
AdmNos == {"ADM1", "ADM2"}
GuardianEmails == {"g1@x", "g2@x"}
\* firstName stands for the student columns without a constraint (it is
\* also the token's name), name for those of guardians.
FirstNames == {"Ann", "Bob"}
GuardianNames == {"Gina", "Hugo"}
Passwords == {"secret1", "secret2"}
\* The values a registration body gives the unconstrained fields.
Profiles ==
    {[firstName |-> "Ann", password |-> "secret1", guardianName |-> "Gina"],
     [firstName |-> "Bob", password |-> "secret2", guardianName |-> "Hugo"]}

(* ------------------------------ state --------------------------------- *)

VARIABLES
    students,     \* committed rows of table students
    guardians,    \* committed rows of table guardians
    studentSeq,   \* last value of students.id's sequence
    guardianSeq,  \* last value of guardians.id's sequence
    reg,          \* per registration request: the handler's position and locals
    checkedOut,   \* pool clients checked out and not released
    res,          \* the exchange completed in the latest step: the request
                  \* and the response sent to it (NoRes when none was)
    now,          \* wall clock, seconds
    jwtSecretEnv, \* process.env.JWT_SECRET (Undefined when not set)
    lst,          \* the GET /students handler's position and locals
    schedules,    \* rows of table schedules
    scheduleSeq,  \* last value of schedules.id's sequence
    slst,         \* the GET /schedules handler's position and locals
    logged        \* what the latest step wrote with console.error ("" when
                  \* it wrote nothing)

vars == <<students, guardians, studentSeq, guardianSeq, reg,
          checkedOut, res, now, jwtSecretEnv, lst, schedules, scheduleSeq,
          slst, logged>>

scheduleVars == <<schedules, scheduleSeq, slst>>

otherVars == <<jwtSecretEnv, lst, schedules, scheduleSeq, slst, logged>>

dbVars == <<students, guardians, studentSeq, guardianSeq>>

\* No response was sent in the latest step.
NoRes == [op |-> "none", req |-> "undefined", status |-> 0,
          body |-> "undefined"]

\* Response `a` as sent to request `req`.
Answer(req, a) ==
    [op |-> a.op, req |-> req, status |-> a.status, body |-> a.body]

\* The response has left the server.
Sent ==
    /\ res.op # "none"
    /\ res' = NoRes
    /\ logged' = ""
    /\ UNCHANGED <<students, guardians, studentSeq, guardianSeq, reg,
                   checkedOut, now, jwtSecretEnv, lst, scheduleVars>>

\* No response is being written: the event loop takes its next callback.
Ready == res.op = "none"

(* --------------------------- bcrypt, errors --------------------------- *)

\* bcrypt.hash(password, 10): a one-way image of the plaintext.
BcryptHash(password) == <<"bcrypt", password>>

\* bcrypt.compare(s, hash): rejects ("throw") unless s is a string (the
\* stored hash always is one).
BcryptCompare(password, hash) ==
    IF password = Undefined THEN "throw"
    ELSE IF hash = BcryptHash(password) THEN "match" ELSE "mismatch"

NoErr == [code |-> "", constraint |-> ""]
\* A query rejected for a reason other than a constraint (connection lost).
ConnErr == [code |-> "08006", constraint |-> ""]
\* new Error('Failed to create or find guardian.')
GuardianErr == [code |-> "", constraint |-> "guardian"]

\* Names PostgreSQL gives the constraints of "email UNIQUE" and
\* "admissioNo UNIQUE" of table students.
StudentsEmailKey == "students_email_key"
StudentsAdmissioNoKey == "students_admissioNo_key"

UniqueViolation(c) == [code |-> "23505", constraint |-> c]

\* err.constraint.includes(sub), for the two substrings the handler tests.
ConstraintIncludes(c, sub) ==
    \/ sub = "students_email" /\ c = StudentsEmailKey
    \/ sub = "students_admissioNo" /\ c = StudentsAdmissioNoKey

(* ------------------------------ the store ----------------------------- *)

\* Unique constraints of students a row would violate among rows `others`.
StudentViolations(row, others) ==
    {c \in {StudentsAdmissioNoKey, StudentsEmailKey} :
        \E o \in others : o.id # row.id /\
            \/ c = StudentsEmailKey /\ o.email = row.email
            \/ c = StudentsAdmissioNoKey /\ o.admissioNo = row.admissioNo}

\* Uncommitted student rows of the transactions other than r.
OtherTxStudents(r) == UNION {reg[q].txS : q \in Regs \ {r}}
AllTxStudents == UNION {reg[q].txS : q \in Regs}
OtherTxGuardians(r) == UNION {reg[q].txG : q \in Regs \ {r}}

\* Effect on table guardians of deleting student row s: the foreign key is
\* students.guardian_id -> guardians.id ON DELETE CASCADE, which removes
\* students when their guardian is deleted and leaves the guardian alone
\* when a student is deleted.
OnStudentDeleted(gs, s) == gs

\* The joined projection both handlers select (no password column).
\* LEFT JOIN: guardian columns are null when no guardian row matches.
Projection(s, gs) ==
    LET g == {x \in gs : x.id = s.guardian_id} IN
    [id |-> s.id, firstName |-> s.firstName, admissioNo |-> s.admissioNo,
     email |-> s.email,
     guardian_name |-> IF g = {} THEN "null" ELSE (CHOOSE x \in g : TRUE).name,
     guardian_email |-> IF g = {} THEN "null" ELSE (CHOOSE x \in g : TRUE).email]

(* ----------------------- POST /auth/register -------------------------- *)

ValidBodies ==
    {[firstName |-> p.firstName, admissioNo |-> a, email |-> e,
      password |-> p.password, guardianName |-> p.guardianName,
      guardianEmail |-> g] :
        p \in Profiles, a \in AdmNos, e \in Emails, g \in GuardianEmails}

\* Bodies that lack a required field.
InvalidBodies ==
    {[b EXCEPT ![f] = Undefined] :
        b \in {[firstName |-> "Ann", admissioNo |-> "ADM1", email |-> "s1@x",
                password |-> "secret1", guardianName |-> "Gina",
                guardianEmail |-> "g1@x"]},
        f \in {"password", "guardianEmail"}}

RegBodies == ValidBodies \cup InvalidBodies

\* A body that breaks two rules of the schema.
TwoFaultsBody ==
    [firstName |-> "Ann", admissioNo |-> "ADM1", email |-> "s1@x",
     password |-> Undefined, guardianName |-> "Gina",
     guardianEmail |-> Undefined]

\* registrationSchema.validate(req.body): the first failing rule's message,
\* or "" when the body passes.
RegistrationError(b) ==
    IF b.firstName = Undefined THEN "\"firstName\" is required"
    ELSE IF b.admissioNo = Undefined THEN "\"admissioNo\" is required"
    ELSE IF b.email = Undefined THEN "\"email\" is required"
    ELSE IF b.password = Undefined THEN "\"password\" is required"
    ELSE IF b.guardianName = Undefined THEN "\"guardianName\" is required"
    ELSE IF b.guardianEmail = Undefined
    THEN "\"guardianEmail\" is required"
    ELSE ""

NoBody == [firstName |-> Undefined, admissioNo |-> Undefined,
           email |-> Undefined, password |-> Undefined,
           guardianName |-> Undefined, guardianEmail |-> Undefined]

\* guardianResult holds the ids the guardian INSERT returned; txG and txS
\* are the rows the open transaction has inserted.
IdleReg == [pc |-> "idle", body |-> NoBody, guardianResult |-> {},
            guardianId |-> 0, newStudentId |-> 0, txG |-> {}, txS |-> {},
            err |-> NoErr]

\* The handler has returned: its locals are gone.
DoneReg == [IdleReg EXCEPT !.pc = "done"]

\* The handler up to its first await: validation, then pool.connect().
RegisterStart(r, b) ==
    /\ reg[r].pc = "idle"
    /\ \A q \in Regs : q < r => reg[q].pc # "idle"
    /\ IF RegistrationError(b) # ""
       THEN /\ reg' = [reg EXCEPT ![r] = DoneReg]
            /\ res' = [op |-> "register", req |-> b, status |-> 400,
                       body |-> RegistrationError(b)]
       ELSE /\ reg' = [reg EXCEPT ![r] = [@ EXCEPT !.pc = "connect",
                                                   !.body = b]]
            /\ res' = NoRes
    /\ UNCHANGED <<dbVars, checkedOut, now, otherVars>>

\* const client = await pool.connect()
PoolConnect(r) ==
    /\ reg[r].pc = "connect"
    /\ checkedOut' = checkedOut + 1
    /\ reg' = [reg EXCEPT ![r].pc = "begin"]
    /\ res' = NoRes
    /\ UNCHANGED <<dbVars, now, otherVars>>

\* The promise of the async handler rejects. The router of express 4
\* drops the rejection and the request is never answered; the router of
\* express 5 passes it to next(err), and the default error handler answers
\* 500. The handler itself sends nothing and logs nothing.
Unhandled(req) ==
    {NoRes,
     [op |-> "finalhandler", req |-> req, status |-> 500,
      body |-> "Internal Server Error"]}

\* pool.connect() rejects: the await is outside the try, the handler's
\* promise rejects and no client is held.
PoolConnectFails(r) ==
    /\ reg[r].pc = "connect"
    /\ reg' = [reg EXCEPT ![r] = DoneReg]
    /\ res' \in Unhandled(reg[r].body)
    /\ UNCHANGED <<dbVars, checkedOut, now, otherVars>>

\* await client.query('BEGIN')
Begin(r) ==
    /\ reg[r].pc = "begin"
    /\ reg' = [reg EXCEPT ![r].pc = "insertGuardian"]
    /\ res' = NoRes
    /\ UNCHANGED <<dbVars, checkedOut, now, otherVars>>

\* InsertGuardian, were the INSERT to return a new row on a conflict too.
InsertGuardianAlways(r) ==
    LET b == reg[r].body
        row == [id |-> guardianSeq + 1, email |-> b.guardianEmail,
                name |-> b.guardianName]
    IN
    /\ reg[r].pc = "insertGuardian"
    /\ guardianSeq' = guardianSeq + 1
    /\ reg' = [reg EXCEPT ![r].pc = "insertStudent", ![r].txG = {row},
                          ![r].guardianResult = {row.id},
                          ![r].guardianId = row.id]
    /\ res' = NoRes
    /\ UNCHANGED <<students, guardians, studentSeq, checkedOut, now,
                   otherVars>>

\* InsertGuardian, were an uncommitted row with the same email a conflict
\* the statement does not wait for.
InsertGuardianNoWait(r) ==
    LET b == reg[r].body
        row == [id |-> guardianSeq + 1, email |-> b.guardianEmail,
                name |-> b.guardianName]
    IN
    /\ reg[r].pc = "insertGuardian"
    /\ guardianSeq' = guardianSeq + 1
    /\ IF \E g \in guardians \cup OtherTxGuardians(r) : g.email = row.email
       THEN reg' = [reg EXCEPT ![r].pc = "selectGuardian"]
       ELSE reg' = [reg EXCEPT ![r].pc = "insertStudent",
                               ![r].txG = {row},
                               ![r].guardianResult = {row.id},
                               ![r].guardianId = row.id]
    /\ res' = NoRes
    /\ UNCHANGED <<students, guardians, studentSeq, checkedOut, now,
                   otherVars>>

\* INSERT INTO guardians ... ON CONFLICT (email) DO NOTHING RETURNING id,
\* and the branch on guardianResult.rows.length.
InsertGuardian(r) ==
    LET b == reg[r].body
        row == [id |-> guardianSeq + 1, email |-> b.guardianEmail,
                name |-> b.guardianName]
    IN
    /\ reg[r].pc = "insertGuardian"
    \* a colliding uncommitted row: wait for its transaction to end
    /\ ~ \E g \in OtherTxGuardians(r) : g.email = row.email
    /\ guardianSeq' = guardianSeq + 1
    /\ IF \E g \in guardians : g.email = row.email
       THEN reg' = [reg EXCEPT ![r].pc = "selectGuardian"]
       ELSE reg' = [reg EXCEPT ![r].pc = "insertStudent",
                               ![r].txG = {row},
                               ![r].guardianResult = {row.id},
                               ![r].guardianId = row.id]
    /\ res' = NoRes
    /\ UNCHANGED <<students, guardians, studentSeq, checkedOut, now,
                   otherVars>>

\* SELECT id FROM guardians WHERE email = $1, and the throw on no row.
SelectGuardian(r) ==
    LET found == {g \in guardians \cup reg[r].txG :
                      g.email = reg[r].body.guardianEmail}
    IN
    /\ reg[r].pc = "selectGuardian"
    /\ IF found = {}
       THEN reg' = [reg EXCEPT ![r].pc = "rollback", ![r].err = GuardianErr]
       ELSE reg' = [reg EXCEPT ![r].pc = "insertStudent",
                       ![r].guardianId = (CHOOSE g \in found : TRUE).id]
    /\ res' = NoRes
    /\ UNCHANGED <<dbVars, checkedOut, now, otherVars>>

\* NewStudentRow, were the positional values one column off.
NewStudentRowShifted(b, id, guardianId) ==
    [id |-> id, firstName |-> b.guardianName, admissioNo |-> b.admissioNo,
     email |-> b.email, password |-> BcryptHash(b.password),
     guardian_id |-> guardianId]

\* The student row the handler inserts: bcrypt.hash, then the 18 columns.
NewStudentRow(b, id, guardianId) ==
    [id |-> id, firstName |-> b.firstName, admissioNo |-> b.admissioNo,
     email |-> b.email, password |-> BcryptHash(b.password),
     guardian_id |-> guardianId]

\* Foreign key students.guardian_id -> guardians.id.
StudentsGuardianFkey == "students_guardian_id_fkey"
ForeignKeyViolation == [code |-> "23503", constraint |-> StudentsGuardianFkey]

\* INSERT INTO students ... RETURNING id
InsertStudent(r) ==
    LET row == NewStudentRow(reg[r].body, studentSeq + 1, reg[r].guardianId)
        viol == StudentViolations(row, students)
    IN
    /\ reg[r].pc = "insertStudent"
    /\ studentSeq' = studentSeq + 1
    /\ IF ~ \E g \in guardians \cup reg[r].txG : g.id = row.guardian_id
       THEN reg' = [reg EXCEPT ![r].pc = "rollback",
                               ![r].err = ForeignKeyViolation]
       ELSE IF viol # {}
       THEN \E c \in viol :
              reg' = [reg EXCEPT ![r].pc = "rollback",
                                 ![r].err = UniqueViolation(c)]
       ELSE \* a colliding uncommitted row: wait for its transaction
            /\ StudentViolations(row, OtherTxStudents(r)) = {}
            /\ reg' = [reg EXCEPT ![r].pc = "commit", ![r].txS = {row},
                                  ![r].newStudentId = row.id]
    /\ res' = NoRes
    /\ UNCHANGED <<students, guardians, guardianSeq, checkedOut, now,
                   otherVars>>

\* await client.query('COMMIT')
Commit(r) ==
    /\ reg[r].pc = "commit"
    /\ students' = students \cup reg[r].txS
    /\ guardians' = guardians \cup reg[r].txG
    /\ reg' = [reg EXCEPT ![r].pc = "reread", ![r].txG = {}, ![r].txS = {}]
    /\ res' = NoRes
    /\ UNCHANGED <<studentSeq, guardianSeq, checkedOut, now, otherVars>>

\* The final SELECT ... JOIN ... WHERE s.id = $1, res.status(201).json(
\* finalResult.rows[0]) and, in finally, client.release().
Reread(r) ==
    LET rows == {Projection(s, guardians) : s \in
                   {s \in students : s.id = reg[r].newStudentId /\
                       \E g \in guardians : g.id = s.guardian_id}}
    IN
    /\ reg[r].pc = "reread"
    /\ reg' = [reg EXCEPT ![r] = DoneReg]
    /\ res' = [op |-> "register", req |-> reg[r].body, status |-> 201,
               body |-> IF rows = {} THEN Undefined
                        ELSE CHOOSE x \in rows : TRUE]
    /\ checkedOut' = checkedOut - 1
    /\ UNCHANGED <<dbVars, now, otherVars>>

\* A client.query of the try block rejects (the connection is lost, the
\* statement times out): control enters catch, which issues ROLLBACK.
QuerySteps == {"begin", "insertGuardian", "selectGuardian", "insertStudent",
               "commit", "reread"}

QueryFails(r) ==
    /\ reg[r].pc \in QuerySteps
    /\ reg' = [reg EXCEPT ![r].pc = "rollback", ![r].err = ConnErr]
    /\ res' = NoRes
    /\ UNCHANGED <<dbVars, checkedOut, now, otherVars>>

\* The catch block's mapping of err to a response.
RegisterErrorResponse(err) ==
    IF err.code = "23505" /\ ConstraintIncludes(err.constraint, "students_email")
    THEN [op |-> "register", status |-> 400,
          body |-> "A student with this email already exists."]
    ELSE IF err.code = "23505"
            /\ ConstraintIncludes(err.constraint, "students_admissioNo")
    THEN [op |-> "register", status |-> 400,
          body |-> "A student with this admission number already exists."]
    ELSE [op |-> "register", status |-> 500,
          body |-> "Internal server error during registration."]

\* What the catch block writes with console.error: nothing on the two
\* duplicate branches, which return before the call.
RegisterErrorLogged(err) ==
    IF RegisterErrorResponse(err).status = 400 THEN ""
    ELSE "Registration Transaction Error:"

\* Rollback, were the rows of the transaction kept instead of discarded.
RollbackPersists(r) ==
    /\ reg[r].pc = "rollback"
    /\ reg' = [reg EXCEPT ![r] = DoneReg]
    /\ res' = Answer(reg[r].body, RegisterErrorResponse(reg[r].err))
    /\ logged' = RegisterErrorLogged(reg[r].err)
    /\ checkedOut' = checkedOut - 1
    /\ students' = students \cup reg[r].txS
    /\ guardians' = guardians \cup reg[r].txG
    /\ UNCHANGED <<studentSeq, guardianSeq, now, jwtSecretEnv, lst,
                   scheduleVars>>

\* await client.query('ROLLBACK'), console.error on the 500 branch, the
\* error response, client.release().
Rollback(r) ==
    /\ reg[r].pc = "rollback"
    /\ reg' = [reg EXCEPT ![r] = DoneReg]
    /\ res' = Answer(reg[r].body, RegisterErrorResponse(reg[r].err))
    /\ logged' = RegisterErrorLogged(reg[r].err)
    /\ checkedOut' = checkedOut - 1
    /\ UNCHANGED <<dbVars, now, jwtSecretEnv, lst, scheduleVars>>

\* ROLLBACK rejects, were client.release() the last statement of the catch
\* block instead of a finally block.
RollbackFailsHolds(r) ==
    /\ reg[r].pc = "rollback"
    /\ reg' = [reg EXCEPT ![r] = DoneReg]
    /\ res' = NoRes
    /\ UNCHANGED <<dbVars, checkedOut, now, otherVars>>

\* ROLLBACK itself rejects: the catch block throws, finally releases the
\* client and the handler's promise rejects; the server aborts the open
\* transaction.
RollbackFails(r) ==
    /\ reg[r].pc = "rollback"
    /\ reg' = [reg EXCEPT ![r] = DoneReg]
    /\ checkedOut' = checkedOut - 1
    /\ res' \in Unhandled(reg[r].body)
    /\ UNCHANGED <<dbVars, now, otherVars>>

\* The steps of the handler after its first await.
RegisterSteps(r) ==
    \/ PoolConnect(r)
    \/ Begin(r)
    \/ InsertGuardian(r)
    \/ SelectGuardian(r)
    \/ InsertStudent(r)
    \/ Commit(r)
    \/ Reread(r)
    \/ Rollback(r)

Register(r) ==
    \/ \E b \in RegBodies : RegisterStart(r, b)
    \/ RegisterSteps(r)

\* The rejections the environment can inflict on a registration.
RegisterFault(r) ==
    \/ PoolConnectFails(r)
    \/ QueryFails(r)
    \/ RollbackFails(r)

(* --------------------------- students router ------------------------- *)

StudentIds == 1..NumRegs

\* GET /students/:id
GetStudentResponse(id) ==
    LET rows == {s \in students : s.id = id} IN
    IF rows = {}
    THEN [op |-> "get", status |-> 404, body |-> "Student not found"]
    ELSE [op |-> "get", status |-> 200,
          body |-> Projection(CHOOSE s \in rows : TRUE, guardians)]

GetStudent(id) ==
    /\ res' = Answer(id, GetStudentResponse(id))
    /\ UNCHANGED <<dbVars, reg, checkedOut, now, otherVars>>

\* PUT /students/:id bodies: every field is optional.
UpdateFields == {"firstName", "admissioNo", "email", "password"}

Supplied(p) == {f \in UpdateFields : p[f] # Undefined}

UpdateBodies ==
    {p \in [firstName : FirstNames \cup {Undefined},
            admissioNo : AdmNos \cup {Undefined},
            email : Emails \cup {Undefined, "not-an-email"},
            password : Passwords \cup {Undefined}] :
        Cardinality(Supplied(p)) <= MaxUpdateFields}

\* A body whose only key is one the update schemas do not know.
UnknownKeyBody ==
    [firstName |-> Undefined, admissioNo |-> Undefined, email |-> Undefined,
     password |-> Undefined, guardianName |-> "Gina"]
UnknownKeyScheduleBody ==
    [title |-> Undefined, category |-> Undefined, start_date |-> Undefined,
     guardianName |-> "Gina"]

\* updateStudentSchema.validate(req.body)
UpdateError(p) ==
    IF p.email = "not-an-email" THEN "\"email\" must be a valid email"
    ELSE IF DOMAIN p # UpdateFields THEN "\"guardianName\" is not allowed"
    ELSE ""

\* UpdatedRow, were the supplied password stored as it came.
UpdatedRowPlaintext(row, p) ==
    [id |-> row.id,
     firstName |-> IF p.firstName # Undefined THEN p.firstName
                   ELSE row.firstName,
     admissioNo |-> IF p.admissioNo # Undefined THEN p.admissioNo
                    ELSE row.admissioNo,
     email |-> IF p.email # Undefined THEN p.email ELSE row.email,
     password |-> IF p.password # Undefined THEN <<"plain", p.password>>
                  ELSE row.password,
     guardian_id |-> row.guardian_id]

\* The row after SET of the supplied columns; the password is re-hashed.
UpdatedRow(row, p) ==
    [id |-> row.id,
     firstName |-> IF p.firstName # Undefined THEN p.firstName
                   ELSE row.firstName,
     admissioNo |-> IF p.admissioNo # Undefined THEN p.admissioNo
                    ELSE row.admissioNo,
     email |-> IF p.email # Undefined THEN p.email ELSE row.email,
     password |-> IF p.password # Undefined THEN BcryptHash(p.password)
                  ELSE row.password,
     guardian_id |-> row.guardian_id]

\* UpdateStudentResponse, were an empty SET list sent to the store, which
\* rejects the statement.
UpdateStudentResponseNoEmptyCheck(id, p) ==
    LET rows == {s \in students : s.id = id} IN
    IF UpdateError(p) # ""
    THEN [op |-> "update", status |-> 400, body |-> UpdateError(p)]
    ELSE IF Supplied(p) = {}
    THEN [op |-> "update", status |-> 500, body |-> "Internal server error"]
    ELSE IF rows = {}
    THEN [op |-> "update", status |-> 404, body |-> "Student not found"]
    ELSE IF StudentViolations(UpdatedRow(CHOOSE s \in rows : TRUE, p),
                              students) # {}
    THEN [op |-> "update", status |-> 400,
          body |-> "This email or admission number is already in use."]
    ELSE [op |-> "update", status |-> 200,
          body |-> "Student updated successfully."]

\* UpdateStudentResponse, were the catch block without its 23505 branch.
UpdateStudentResponseNo23505(id, p) ==
    LET rows == {s \in students : s.id = id} IN
    IF UpdateError(p) # ""
    THEN [op |-> "update", status |-> 400, body |-> UpdateError(p)]
    ELSE IF Supplied(p) = {}
    THEN [op |-> "update", status |-> 400, body |-> "No fields to update."]
    ELSE IF rows = {}
    THEN [op |-> "update", status |-> 404, body |-> "Student not found"]
    ELSE IF StudentViolations(UpdatedRow(CHOOSE s \in rows : TRUE, p),
                              students) # {}
    THEN [op |-> "update", status |-> 500, body |-> "Internal server error"]
    ELSE [op |-> "update", status |-> 200,
          body |-> "Student updated successfully."]

\* The handler's answer; 200 stands for the UPDATE having taken place.
UpdateStudentResponse(id, p) ==
    LET rows == {s \in students : s.id = id} IN
    IF UpdateError(p) # ""
    THEN [op |-> "update", status |-> 400, body |-> UpdateError(p)]
    ELSE IF Supplied(p) = {}
    THEN [op |-> "update", status |-> 400, body |-> "No fields to update."]
    ELSE IF rows = {}
    THEN [op |-> "update", status |-> 404, body |-> "Student not found"]
    ELSE IF StudentViolations(UpdatedRow(CHOOSE s \in rows : TRUE, p),
                              students) # {}
    THEN [op |-> "update", status |-> 400,
          body |-> "This email or admission number is already in use."]
    ELSE [op |-> "update", status |-> 200,
          body |-> "Student updated successfully."]

UpdateStudent(id, p) ==
    LET rows == {s \in students : s.id = id}
        answer == UpdateStudentResponse(id, p)
    IN
    /\ res' = Answer([id |-> id, body |-> p], answer)
    /\ IF answer.status = 200
       THEN LET row == CHOOSE s \in rows : TRUE IN
            \* a colliding uncommitted row: wait for its transaction
            /\ StudentViolations(UpdatedRow(row, p), AllTxStudents) = {}
            /\ students' = (students \ {row}) \cup {UpdatedRow(row, p)}
       ELSE students' = students
    /\ UNCHANGED <<guardians, studentSeq, guardianSeq, reg, checkedOut, now,
                   otherVars>>

\* DeleteStudent, were the handler to delete the guardian row itself.
DeleteStudentAndGuardian(id) ==
    LET rows == {s \in students : s.id = id} IN
    /\ IF rows = {}
       THEN /\ res' = [op |-> "delete", req |-> id, status |-> 404,
                       body |-> "Student not found"]
            /\ UNCHANGED <<students, guardians>>
       ELSE /\ res' = [op |-> "delete", req |-> id, status |-> 200, body |->
                 "Student and associated guardian deleted successfully"]
            /\ students' = students \ rows
            /\ guardians' = {g \in guardians :
                                \A s \in rows : g.id # s.guardian_id}
    /\ UNCHANGED <<studentSeq, guardianSeq, reg, checkedOut, now, otherVars>>

\* DELETE /students/:id
DeleteStudent(id) ==
    LET rows == {s \in students : s.id = id} IN
    /\ IF rows = {}
       THEN /\ res' = [op |-> "delete", req |-> id, status |-> 404,
                       body |-> "Student not found"]
            /\ UNCHANGED <<students, guardians>>
       ELSE /\ res' = [op |-> "delete", req |-> id, status |-> 200, body |->
                 "Student and associated guardian deleted successfully"]
            /\ students' = students \ rows
            /\ guardians' = OnStudentDeleted(guardians, CHOOSE s \in rows : TRUE)
    /\ UNCHANGED <<studentSeq, guardianSeq, reg, checkedOut, now, otherVars>>

(* ------------------------------- tokens ------------------------------- *)

\* The secret jwt.sign falls back to when JWT_SECRET is not set.
SignSecret ==
    IF jwtSecretEnv = Undefined THEN "your_jwt_secret" ELSE jwtSecretEnv

\* jwt.sign(claims, secret, { expiresIn: '1h' }) at time t.
JwtSign(claims, secret, t) ==
    [id |-> claims.id, email |-> claims.email, name |-> claims.name,
     role |-> claims.role, iat |-> t, exp |-> t + ExpiresIn, key |-> secret]

\* jwt.verify(token, secret) at time t.
JwtVerify(token, secret, t) ==
    IF secret = Undefined THEN "JsonWebTokenError"
    ELSE IF token.key # secret THEN "JsonWebTokenError"
    ELSE IF t >= token.exp THEN "TokenExpiredError"
    ELSE "ok"

(* -------------------------- POST /auth/login -------------------------- *)

LoginEmails == Emails \cup {Undefined}
LoginPasswords == Passwords \cup {Undefined}

\* LoginResponse, were the password not compared.
LoginResponseNoCompare(email, password) ==
    LET rows == {s \in students : s.email = email} IN
    IF rows = {}
    THEN [op |-> "login", status |-> 401, body |-> "Invalid email or password"]
    ELSE LET student == CHOOSE s \in rows : TRUE IN
         [op |-> "login", status |-> 200,
          body |-> JwtSign([id |-> student.id, email |-> student.email,
                            name |-> student.firstName, role |-> "student"],
                           SignSecret, now)]

LoginResponse(email, password) ==
    LET rows == {s \in students : s.email = email} IN
    IF rows = {}
    THEN [op |-> "login", status |-> 401, body |-> "Invalid email or password"]
    ELSE LET student == CHOOSE s \in rows : TRUE
             cmp == BcryptCompare(password, student.password)
         IN
         IF cmp = "throw"
         THEN [op |-> "login", status |-> 500,
               body |-> "Internal server error during login"]
         ELSE IF cmp = "mismatch"
         THEN [op |-> "login", status |-> 401,
               body |-> "Invalid email or password"]
         ELSE [op |-> "login", status |-> 200,
               body |-> JwtSign([id |-> student.id, email |-> student.email,
                                 name |-> student.firstName,
                                 role |-> "student"], SignSecret, now)]

\* The handler; its catch block writes console.error before the 500.
Login(email, password) ==
    /\ res' = Answer([email |-> email, password |-> password],
                     LoginResponse(email, password))
    /\ logged' = (IF LoginResponse(email, password).status = 500
                  THEN "Login error:" ELSE "")
    /\ UNCHANGED <<dbVars, reg, checkedOut, now, jwtSecretEnv, lst,
                   scheduleVars>>

Tick ==
    /\ now < MaxTicks * TickSeconds
    /\ now' = now + TickSeconds
    /\ res' = NoRes
    /\ UNCHANGED <<dbVars, reg, checkedOut, otherVars>>

(* ------------------------- the auth guard ----------------------------- *)

\* Authorization headers: none, 'Bearer ' with no token (token <<>>), and
\* 'Bearer <token>' (token <<t>>).
NoHeader == [scheme |-> "", token |-> <<>>]
Bearer(token) == [scheme |-> "Bearer", token |-> token]

\* const JWT_SECRET = process.env.JWT_SECRET (no fallback).
VerifySecret == jwtSecretEnv

\* AuthMiddleware, were an expired token answered like any other failure.
AuthMiddlewareExpiredAsInvalid(header) ==
    IF header.scheme # "Bearer"
    THEN [next |-> FALSE, status |-> 401,
          body |-> "Authorization header missing or malformed"]
    ELSE IF header.token = <<>>
    THEN [next |-> FALSE, status |-> 401,
          body |-> "Access denied, token required"]
    ELSE IF JwtVerify(header.token[1], VerifySecret, now) = "ok"
    THEN [next |-> TRUE, status |-> 0, body |-> header.token[1]]
    ELSE [next |-> FALSE, status |-> 403, body |-> "Invalid token"]

\* authMiddleware(req, res, next): "next" with req.user, or the response.
AuthMiddleware(header) ==
    IF header.scheme # "Bearer"
    THEN [next |-> FALSE, status |-> 401,
          body |-> "Authorization header missing or malformed"]
    ELSE IF header.token = <<>>
    THEN [next |-> FALSE, status |-> 401,
          body |-> "Access denied, token required"]
    ELSE LET v == JwtVerify(header.token[1], VerifySecret, now) IN
         IF v = "ok"
         THEN [next |-> TRUE, status |-> 0, body |-> header.token[1]]
         ELSE IF v = "TokenExpiredError"
         THEN [next |-> FALSE, status |-> 401, body |-> "Token expired"]
         ELSE [next |-> FALSE, status |-> 403, body |-> "Invalid token"]

\* One call authMiddleware(req, res, next) on a request with the given
\* Authorization header: op "next" when next() was called (body is
\* req.user), op "guard" when the middleware sent the response itself.
AuthMiddlewareCall(header) ==
    LET g == AuthMiddleware(header) IN
    /\ res' = [op |-> IF g.next THEN "next" ELSE "guard", req |-> header,
               status |-> g.status, body |-> g.body]
    /\ UNCHANGED <<dbVars, reg, checkedOut, now, otherVars>>

\* index.js: app.use('/auth', authRouter); app.use('/students',
\* studentsRouter); app.use('/schedules', scheduleRouter). The middleware
\* each mount runs before its router.
RouteGuards(path) == {}

\* What the mounted middleware of `path` answers: next, or a response.
Guard(path, header) ==
    IF "authMiddleware" \in RouteGuards(path)
    THEN AuthMiddleware(header)
    ELSE [next |-> TRUE, status |-> 0, body |-> Undefined]

(* ---------------------------- GET /students --------------------------- *)

\* Collation order of the strings of the model.
Alphabet == <<"2026-01-10", "2026-02-20", "ADM1", "ADM2", "Ann", "Bob",
              "club", "Exam", "null", "s1@x", "s2@x", "school", "Trip">>
Rank(x) == CHOOSE i \in 1..Len(Alphabet) : Alphabet[i] = x

\* String.prototype.toLowerCase and the case folding of ILIKE, on the
\* strings of the model.
ToLowerCase(x) ==
    CASE x = "Ann" -> "ann"
      [] x = "DESC" -> "desc"
      [] x = "Exam" -> "exam"
      [] OTHER -> x

\* value ILIKE '%' || term || '%'. No string of the model is a proper part
\* of another, so containment is equality up to case.
ILike(value, term) == ToLowerCase(value) = ToLowerCase(term)

\* req.query after its defaults.
DefaultQuery == [page |-> 1, limit |-> 10, search |-> "",
                 sortBy |-> "lastName", sortOrder |-> "asc"]
ListQueries == {DefaultQuery}

validSortColumns == {"lastName", "firstName", "email", "form", "admissioNo"}

\* The column ORDER BY names. firstName stands for lastName and form.
OrderByColumn(sortBy) ==
    IF sortBy \in {"email", "admissioNo"} THEN sortBy ELSE "firstName"

OrderDirection(sortOrder) ==
    IF ToLowerCase(sortOrder) = "desc" THEN "DESC" ELSE "ASC"

\* The rows of the base query (no WHERE when search is empty).
Matching(search) ==
    {Projection(s, guardians) : s \in
        {s \in students : \/ search = ""
                          \/ ILike(s.firstName, search)
                          \/ ILike(s.email, search)}}

\* The value ORDER BY compares rows by.
SortKey(row, col) == IF col = "id" THEN row.id ELSE Rank(row[col])

\* The orders ORDER BY col dir may return a set of rows in.
Ordered(rows, col, dir) ==
    {q \in [1..Cardinality(rows) -> rows] :
        /\ \A i, j \in DOMAIN q : i # j => q[i] # q[j]
        /\ \A i, j \in DOMAIN q : i < j =>
              IF dir = "DESC" THEN SortKey(q[i], col) >= SortKey(q[j], col)
              ELSE SortKey(q[i], col) <= SortKey(q[j], col)}

Min(a, b) == IF a < b THEN a ELSE b

\* LIMIT limit OFFSET offset of a sequence of rows.
LimitOffset(q, limit, offset) ==
    [i \in 1..(Min(Len(q), offset + limit) - Min(Len(q), offset)) |->
        q[offset + i]]

\* Math.floor in the place of Math.ceil.
CeilDivFloor(total, limit) == total \div limit

\* Math.ceil(total / limit) for limit > 0.
CeilDiv(total, limit) == (total + limit - 1) \div limit

\* totalPages as the response carries it: total / 0 is Infinity or NaN,
\* which JSON.stringify writes as null.
TotalPages(total, limit) ==
    IF limit = 0 THEN "null" ELSE CeilDiv(total, limit)

\* A store that also rejects an OFFSET past the first row.
PageQueryRejectedBeyond(limit, offset) == limit < 0 \/ offset # 0

\* PostgreSQL rejects the page query: LIMIT or OFFSET must not be negative.
PageQueryRejected(limit, offset) == limit < 0 \/ offset < 0

IdleList == [pc |-> "idle", header |-> NoHeader, query |-> DefaultQuery,
             totalStudents |-> 0]

\* The mounted middleware, then the handler up to its first await: the
\* count query.
ListStart(header, query) ==
    LET g == Guard("/students", header) IN
    /\ lst.pc = "idle"
    /\ IF g.next
       THEN /\ lst' = [pc |-> "page", header |-> header, query |-> query,
                       totalStudents |-> Cardinality(Matching(query.search))]
            /\ res' = NoRes
       ELSE /\ lst' = lst
            /\ res' = [op |-> "list",
                       req |-> [header |-> header, query |-> query],
                       status |-> g.status, body |-> g.body]
    /\ UNCHANGED <<dbVars, reg, checkedOut, now, jwtSecretEnv, logged,
                   scheduleVars>>

\* sortBy interpolated as it arrived.
OrderByIdentifierUnchecked(sortBy) == sortBy

\* The text of the page query, token by token, and its bound parameters.
OrderByIdentifier(sortBy) ==
    IF sortBy \in validSortColumns THEN sortBy ELSE "lastName"

ListQueryText(query) ==
    <<"SELECT s.*, g.* FROM students s LEFT JOIN guardians g">>
    \o (IF query.search # "" THEN <<"WHERE", "ILIKE", "$1">> ELSE <<>>)
    \o <<"ORDER BY", OrderByIdentifier(query.sortBy),
          OrderDirection(query.sortOrder)>>
    \o (IF query.search # "" THEN <<"LIMIT", "$2", "OFFSET", "$3">>
        ELSE <<"LIMIT", "$1", "OFFSET", "$2">>)

ListQueryParams(query) ==
    (IF query.search # "" THEN <<[like |-> query.search]>> ELSE <<>>)
    \o <<[value |-> query.limit],
          [value |-> (query.page - 1) * query.limit]>>

\* The page query and the response.
ListPage ==
    LET query == lst.query
        offset == (query.page - 1) * query.limit
    IN
    /\ lst.pc = "page"
    /\ IF PageQueryRejected(query.limit, offset)
       THEN res' = [op |-> "list",
                    req |-> [header |-> lst.header, query |-> lst.query],
                    status |-> 500, body |-> "Internal server error"]
       ELSE \E q \in Ordered(Matching(query.search),
                             OrderByColumn(query.sortBy),
                             OrderDirection(query.sortOrder)) :
          res' = [op |-> "list",
                  req |-> [header |-> lst.header, query |-> lst.query],
                  status |-> 200,
                  body |-> [students |-> LimitOffset(q, query.limit, offset),
                            totalStudents |-> lst.totalStudents,
                            totalPages |-> TotalPages(lst.totalStudents,
                                                      query.limit),
                            currentPage |-> query.page,
                            limit |-> query.limit]]
    /\ logged' = (IF PageQueryRejected(query.limit, offset)
                  THEN "Error fetching students:" ELSE "")
    /\ lst' = IdleList
    /\ UNCHANGED <<dbVars, reg, checkedOut, now, jwtSecretEnv, scheduleVars>>

\* The claims a presented token carries; the guard does not read them.
AnyClaims == [id |-> 1, email |-> "s1@x", name |-> "Ann", role |-> "student"]

\* Headers a client may send: none, no token, a token signed with the
\* server's secret now or more than its lifetime ago, a token signed with
\* another key.
Headers ==
    {NoHeader, Bearer(<<>>),
     Bearer(<<JwtSign(AnyClaims, SignSecret, now)>>),
     Bearer(<<JwtSign(AnyClaims, SignSecret, now - ExpiresIn)>>),
     Bearer(<<JwtSign(AnyClaims, "forged", now)>>)}

ListStudents ==
    \/ \E h \in Headers, q \in ListQueries : ListStart(h, q)
    \/ ListPage

(* --------------------------- schedules router ------------------------- *)

ScheduleIds == 1..MaxSchedules

\* title, category and start_date stand for the five columns a body sets
\* (end_date is validated like start_date, img like title).
ScheduleFields == {"title", "category", "start_date"}

ScheduleProfiles ==
    {[title |-> "Exam", category |-> "school", start_date |-> "2026-01-10"],
     [title |-> "Trip", category |-> "club", start_date |-> "2026-02-20"]}

\* POST /schedules bodies: the profiles, and one without its title.
ScheduleBodies ==
    ScheduleProfiles \cup
    {[title |-> Undefined, category |-> "school",
      start_date |-> "2026-01-10"]}

\* registrationSchema.validate(req.body) of validation/schedule.js.
ScheduleError(b) ==
    IF b.title = Undefined THEN "\"title\" is required"
    ELSE IF b.category = Undefined THEN "\"category\" is required"
    ELSE IF b.start_date = Undefined THEN "\"start_date\" is required"
    ELSE ""

\* CreateSchedule, were the INSERT issued before the body is validated.
CreateScheduleStoresFirst(b) ==
    /\ scheduleSeq < MaxSchedules
    /\ scheduleSeq' = scheduleSeq + 1
    /\ schedules' = schedules \cup
          {[id |-> scheduleSeq + 1, title |-> b.title,
            category |-> b.category, start_date |-> b.start_date]}
    /\ IF ScheduleError(b) # ""
       THEN res' = [op |-> "createSchedule", req |-> b, status |-> 400,
                    body |-> ScheduleError(b)]
       ELSE res' = [op |-> "createSchedule", req |-> b, status |-> 201,
                    body |-> "Schedule created successfully"]
    /\ UNCHANGED <<dbVars, reg, checkedOut, now, jwtSecretEnv, logged, lst,
                   slst>>

\* POST /schedules
CreateSchedule(b) ==
    /\ scheduleSeq < MaxSchedules
    /\ IF ScheduleError(b) # ""
       THEN /\ res' = [op |-> "createSchedule", req |-> b, status |-> 400,
                       body |-> ScheduleError(b)]
            /\ UNCHANGED <<schedules, scheduleSeq>>
       ELSE /\ scheduleSeq' = scheduleSeq + 1
            /\ schedules' = schedules \cup
                  {[id |-> scheduleSeq + 1, title |-> b.title,
                    category |-> b.category, start_date |-> b.start_date]}
            /\ res' = [op |-> "createSchedule", req |-> b, status |-> 201,
                       body |-> "Schedule created successfully"]
    /\ UNCHANGED <<dbVars, reg, checkedOut, now, jwtSecretEnv, logged, lst,
                   slst>>

\* PUT /schedules/:id bodies: every field is optional.
ScheduleUpdateBodies ==
    {p \in [title : {"Exam", "Trip", Undefined},
            category : {"school", "club", Undefined},
            start_date : {"2026-01-10", "2026-02-20", Undefined,
                          "not-a-date"}] :
        Cardinality({f \in ScheduleFields : p[f] # Undefined})
            <= MaxUpdateFields}

\* updateScheduleSchema.validate(req.body)
ScheduleUpdateError(p) ==
    IF p.start_date = "not-a-date"
    THEN "\"start_date\" must be in ISO 8601 date format"
    ELSE IF DOMAIN p # ScheduleFields
    THEN "\"guardianName\" is not allowed"
    ELSE ""

\* The row after SET of the supplied columns, were the others set to null.
UpdatedScheduleNulling(row, p) ==
    [id |-> row.id,
     title |-> IF p.title # Undefined THEN p.title ELSE "null",
     category |-> IF p.category # Undefined THEN p.category ELSE "null",
     start_date |-> IF p.start_date # Undefined THEN p.start_date
                    ELSE "null"]

\* The row after SET of the supplied columns.
UpdatedSchedule(row, p) ==
    [id |-> row.id,
     title |-> IF p.title # Undefined THEN p.title ELSE row.title,
     category |-> IF p.category # Undefined THEN p.category
                  ELSE row.category,
     start_date |-> IF p.start_date # Undefined THEN p.start_date
                    ELSE row.start_date]

\* UpdateScheduleResponse, were an UPDATE that matches no row a success.
UpdateScheduleResponseNo404(id, p) ==
    IF ScheduleUpdateError(p) # ""
    THEN [op |-> "updateSchedule", status |-> 400,
          body |-> ScheduleUpdateError(p)]
    ELSE IF \A f \in ScheduleFields : p[f] = Undefined
    THEN [op |-> "updateSchedule", status |-> 400,
          body |-> "No fields to update."]
    ELSE [op |-> "updateSchedule", status |-> 200,
          body |-> "Schedule updated successfully."]

\* The handler's answer; 200 stands for the UPDATE having taken place.
UpdateScheduleResponse(id, p) ==
    IF ScheduleUpdateError(p) # ""
    THEN [op |-> "updateSchedule", status |-> 400,
          body |-> ScheduleUpdateError(p)]
    ELSE IF \A f \in ScheduleFields : p[f] = Undefined
    THEN [op |-> "updateSchedule", status |-> 400,
          body |-> "No fields to update."]
    ELSE IF ~ \E x \in schedules : x.id = id
    THEN [op |-> "updateSchedule", status |-> 404,
          body |-> "Schedule not found"]
    ELSE [op |-> "updateSchedule", status |-> 200,
          body |-> "Schedule updated successfully."]

\* PUT /schedules/:id
UpdateSchedule(id, p) ==
    LET answer == UpdateScheduleResponse(id, p) IN
    /\ res' = Answer([id |-> id, body |-> p], answer)
    /\ schedules' =
          IF answer.status = 200
          THEN {IF x.id = id THEN UpdatedSchedule(x, p) ELSE x :
                   x \in schedules}
          ELSE schedules
    /\ UNCHANGED <<dbVars, reg, checkedOut, now, jwtSecretEnv, logged, lst,
                   scheduleSeq, slst>>

\* DELETE /schedules/:id
DeleteSchedule(id) ==
    /\ IF \E x \in schedules : x.id = id
       THEN /\ schedules' = {x \in schedules : x.id # id}
            /\ res' = [op |-> "deleteSchedule", req |-> id, status |-> 200,
                       body |-> "Schedule deleted successfully"]
       ELSE /\ schedules' = schedules
            /\ res' = [op |-> "deleteSchedule", req |-> id, status |-> 404,
                       body |-> "Schedule not found"]
    /\ UNCHANGED <<dbVars, reg, checkedOut, now, jwtSecretEnv, logged, lst,
                   scheduleSeq, slst>>

\* GET /schedules: the columns a request may sort by.
scheduleSortColumns == {"title", "category", "start_date", "end_date", "id"}

\* The identifier ORDER BY names, and the column of the model it sorts by
\* (start_date stands for end_date).
ScheduleOrderByIdentifier(sortBy) ==
    IF sortBy \in scheduleSortColumns THEN sortBy ELSE "start_date"

ScheduleOrderByColumn(sortBy) ==
    IF sortBy \in {"title", "category", "id"} THEN sortBy ELSE "start_date"

ScheduleQueryParams(query) ==
    (IF query.search # "" THEN <<[like |-> query.search]>> ELSE <<>>)
    \o <<[value |-> query.limit],
          [value |-> (query.page - 1) * query.limit]>>

ScheduleQueryText(query) ==
    <<"SELECT * FROM schedules">>
    \o (IF query.search # "" THEN <<"WHERE", "ILIKE", "$1">> ELSE <<>>)
    \o <<"ORDER BY", ScheduleOrderByIdentifier(query.sortBy),
          OrderDirection(query.sortOrder)>>
    \o (IF query.search # "" THEN <<"LIMIT", "$2", "OFFSET", "$3">>
        ELSE <<"LIMIT", "$1", "OFFSET", "$2">>)

\* WHERE title ILIKE $1 OR category ILIKE $1 (no WHERE when search is
\* empty).
MatchingSchedules(search) ==
    {x \in schedules : \/ search = ""
                       \/ ILike(x.title, search)
                       \/ ILike(x.category, search)}

\* The handler up to its first await: the count query.
ScheduleListStart(query) ==
    /\ slst.pc = "idle"
    /\ slst' = [pc |-> "page", header |-> NoHeader, query |-> query,
                totalStudents |->
                    Cardinality(MatchingSchedules(query.search))]
    /\ res' = NoRes
    /\ UNCHANGED <<dbVars, reg, checkedOut, now, jwtSecretEnv, logged, lst,
                   schedules, scheduleSeq>>

\* The page query and the response.
ScheduleListPage ==
    LET query == slst.query
        offset == (query.page - 1) * query.limit
    IN
    /\ slst.pc = "page"
    /\ IF PageQueryRejected(query.limit, offset)
       THEN res' = [op |-> "listSchedules", req |-> query, status |-> 500,
                    body |-> "Internal server error"]
       ELSE \E q \in Ordered(MatchingSchedules(query.search),
                             ScheduleOrderByColumn(query.sortBy),
                             OrderDirection(query.sortOrder)) :
          res' = [op |-> "listSchedules", req |-> query, status |-> 200,
                  body |-> [schedules |-> LimitOffset(q, query.limit, offset),
                            totalSchedules |-> slst.totalStudents,
                            totalPages |-> TotalPages(slst.totalStudents,
                                                      query.limit),
                            currentPage |-> query.page,
                            limit |-> query.limit]]
    /\ logged' = (IF PageQueryRejected(query.limit, offset)
                  THEN "Error fetching schedules:" ELSE "")
    /\ slst' = IdleList
    /\ UNCHANGED <<dbVars, reg, checkedOut, now, jwtSecretEnv, lst,
                   schedules, scheduleSeq>>

\* Page numbers and page sizes of the list requests, the sizes 0 and -1
\* included.
Pages == 1..MaxPage
Limits == {0 - 1, 0} \cup 1..MaxLimit

\* search, sortBy and sortOrder of the list requests: the defaults, a
\* search that matches with a listed sort column in capitals, and a search
\* that matches nothing with SQL text in place of column and direction.
QueryStyles ==
    {[search |-> "", sortBy |-> "lastName", sortOrder |-> "asc"],
     [search |-> "ann", sortBy |-> "email", sortOrder |-> "DESC"],
     [search |-> "zzz", sortBy |-> "email; DROP TABLE students",
      sortOrder |-> "desc; DROP TABLE students"]}

ScheduleQueryStyles ==
    {[search |-> "", sortBy |-> "start_date", sortOrder |-> "asc"],
     [search |-> "exam", sortBy |-> "id", sortOrder |-> "DESC"],
     [search |-> "zzz", sortBy |-> "id; DROP TABLE schedules",
      sortOrder |-> "desc; DROP TABLE schedules"]}

PageQuery(page, limit, style) ==
    [page |-> page, limit |-> limit, search |-> style.search,
     sortBy |-> style.sortBy, sortOrder |-> style.sortOrder]

JwtSecretEnvs == {Undefined, "s3cret"}

\* An empty store, no request in flight.
InitStore ==
    /\ students = {}
    /\ guardians = {}
    /\ studentSeq = 0
    /\ guardianSeq = 0
    /\ reg = [r \in Regs |-> IdleReg]
    /\ checkedOut = 0
    /\ res = NoRes
    /\ now = 0
    /\ lst = IdleList
    /\ schedules = {}
    /\ scheduleSeq = 0
    /\ slst = IdleList
    /\ logged = ""

Init == InitStore /\ jwtSecretEnv \in JwtSecretEnvs

\* The handlers of the store read no process configuration.
InitNoEnv == InitStore /\ jwtSecretEnv = Undefined

Students ==
    \/ \E id \in StudentIds : GetStudent(id)
    \/ \E id \in StudentIds, p \in UpdateBodies : UpdateStudent(id, p)
    \/ \E id \in StudentIds : DeleteStudent(id)

Next ==
    \/ Sent
    \/ Ready /\ \E h \in Headers : AuthMiddlewareCall(h)
    \/ Ready /\ \E r \in Regs : Register(r) \/ RegisterFault(r)
    \/ Ready /\ Students
    \/ Ready /\ ListStudents
    \/ Ready /\ \E e \in LoginEmails, pw \in LoginPasswords : Login(e, pw)
    \/ Ready /\ Tick

Spec == Init /\ [][Next]_vars

\* Registrations (with the rejections of the pool and the store) and reads.
NextRegister ==
    \/ Sent
    \/ Ready /\ \E r \in Regs : Register(r) \/ RegisterFault(r)
    \/ Ready /\ \E id \in StudentIds : GetStudent(id)

SpecRegister == InitNoEnv /\ [][NextRegister]_vars

\* Bodies that differ in the constrained columns only.
KeyBodies == {b \in RegBodies : b.firstName = "Ann"}
KeyUpdateBodies ==
    {p \in UpdateBodies : p.firstName = Undefined /\ p.password = Undefined}

\* Concurrent registrations and the students router, on the constrained
\* columns.
NextStudents ==
    \/ Sent
    \/ Ready /\ \E r \in Regs : (\E b \in KeyBodies : RegisterStart(r, b))
                                    \/ RegisterSteps(r)
    \/ Ready /\ \E id \in StudentIds : GetStudent(id)
    \/ Ready /\ \E id \in StudentIds, p \in KeyUpdateBodies :
                    UpdateStudent(id, p)
    \/ Ready /\ \E id \in StudentIds : DeleteStudent(id)

SpecStudents == InitNoEnv /\ [][NextStudents]_vars

\* Bodies that differ in the student's email (with it the admission
\* number) and in the unconstrained fields, under one guardian.
AuthBodies ==
    {b \in ValidBodies :
        /\ b.guardianEmail = "g1@x"
        /\ (b.email = "s1@x") <=> (b.admissioNo = "ADM1")}

\* One registration at a time.
RegisterAlone(r) ==
    /\ \A q \in Regs \ {r} : reg[q].pc \in {"idle", "done"}
    /\ \/ \E b \in AuthBodies : RegisterStart(r, b)
       \/ RegisterSteps(r)

\* Registrations, password changes, login, the list and the clock.
NextAuth ==
    \/ Sent
    \/ Ready /\ \E h \in Headers : AuthMiddlewareCall(h)
    \/ Ready /\ \E r \in Regs : RegisterAlone(r)
    \/ Ready /\ ListStudents
    \/ Ready /\ \E e \in LoginEmails, pw \in LoginPasswords : Login(e, pw)
    \/ Ready /\ Tick

SpecAuth == Init /\ [][NextAuth]_vars

\* No registration was started yet.
StudentsUntouched == studentSeq = 0 /\ \A r \in Regs : reg[r].pc = "idle"

\* Table schedules holds at most the first schedule, as it was created.
SchedulesUntouched ==
    /\ scheduleSeq <= 1
    /\ schedules \subseteq {[id |-> 1, title |-> "Exam", category |-> "school",
                             start_date |-> "2026-01-10"]}

\* Registrations one at a time, the students router with every update
\* body, and the schedules router. The two routers share no table: a run
\* exercises the schedules router before its first registration, and the
\* students router beside at most the first schedule.
NextUpdate ==
    \/ Sent
    \/ Ready /\ SchedulesUntouched /\ \E r \in Regs : RegisterAlone(r)
    \/ Ready /\ \E id \in StudentIds, p \in UpdateBodies : UpdateStudent(id, p)
    \/ Ready /\ \E id \in StudentIds : UpdateStudent(id, UnknownKeyBody)
    \/ Ready /\ \E e \in LoginEmails, pw \in LoginPasswords : Login(e, pw)
    \/ Ready /\ \E id \in StudentIds : DeleteStudent(id)
    \/ Ready /\ StudentsUntouched /\ \E b \in ScheduleBodies :
                    CreateSchedule(b)
    \/ Ready /\ StudentsUntouched
             /\ \E id \in ScheduleIds, p \in ScheduleUpdateBodies :
                    UpdateSchedule(id, p)
    \/ Ready /\ StudentsUntouched /\ \E id \in ScheduleIds :
                    UpdateSchedule(id, UnknownKeyScheduleBody)
    \/ Ready /\ StudentsUntouched /\ \E id \in ScheduleIds :
                    DeleteSchedule(id)

SpecUpdate == InitNoEnv /\ [][NextUpdate]_vars

\* The four handlers that validate a body, with bodies that pass and
\* bodies that fail their schema; a body that fails may arrive while a
\* registration is in flight.
NextValidate ==
    \/ Sent
    \/ Ready /\ SchedulesUntouched /\ \E r \in Regs : RegisterAlone(r)
    \/ Ready /\ SchedulesUntouched
             /\ \E r \in Regs, b \in InvalidBodies \cup {TwoFaultsBody} :
                    RegisterStart(r, b)
    \/ Ready /\ \E id \in StudentIds, p \in KeyUpdateBodies :
                    UpdateStudent(id, p)
    \/ Ready /\ \E id \in StudentIds : UpdateStudent(id, UnknownKeyBody)
    \/ Ready /\ StudentsUntouched /\ \E b \in ScheduleBodies :
                    CreateSchedule(b)
    \/ Ready /\ StudentsUntouched
             /\ \E id \in ScheduleIds, p \in ScheduleUpdateBodies :
                    UpdateSchedule(id, p)
    \/ Ready /\ StudentsUntouched /\ \E id \in ScheduleIds :
                    UpdateSchedule(id, UnknownKeyScheduleBody)

SpecValidate == InitNoEnv /\ [][NextValidate]_vars

\* No list request is in flight.
ListsIdle == lst.pc = "idle" /\ slst.pc = "idle"

\* The two list handlers over stores that registrations, schedule
\* creations and deletions fill between list requests.
NextList ==
    \/ Sent
    \/ Ready /\ ListsIdle /\ SchedulesUntouched
             /\ \E r \in Regs : RegisterAlone(r)
    \/ Ready /\ ListsIdle /\ \E id \in StudentIds : DeleteStudent(id)
    \/ Ready /\ ListsIdle /\ StudentsUntouched
             /\ \E b \in ScheduleBodies : CreateSchedule(b)
    \/ Ready /\ ListsIdle /\ StudentsUntouched
             /\ \E id \in ScheduleIds : DeleteSchedule(id)
    \/ Ready /\ ListsIdle
             /\ \E p \in Pages, l \in Limits, y \in QueryStyles :
                    ListStart(NoHeader, PageQuery(p, l, y))
    \/ Ready /\ ListPage
    \/ Ready /\ ListsIdle
             /\ \E p \in Pages, l \in Limits, y \in ScheduleQueryStyles :
                    ScheduleListStart(PageQuery(p, l, y))
    \/ Ready /\ ScheduleListPage

SpecList == InitNoEnv /\ [][NextList]_vars

\* Update bodies that change the name a search matches on, or nothing.
NameUpdateBodies ==
    {p \in UpdateBodies : /\ p.admissioNo = Undefined
                          /\ p.email = Undefined
                          /\ p.password = Undefined}

\* Page sizes a store accepts and pages are made of.
PageSizes == 1..MaxLimit

\* The two list handlers, one request at a time, with registrations,
\* updates and deletions, and schedule creations and deletions, taking place
\* between the count query and the page query.
NextListWrites ==
    \/ Sent
    \/ Ready /\ SchedulesUntouched /\ \E r \in Regs : RegisterAlone(r)
    \/ Ready /\ \E id \in StudentIds, p \in NameUpdateBodies :
                    UpdateStudent(id, p)
    \/ Ready /\ \E id \in StudentIds : DeleteStudent(id)
    \/ Ready /\ StudentsUntouched
             /\ \E b \in ScheduleBodies : CreateSchedule(b)
    \/ Ready /\ StudentsUntouched
             /\ \E id \in ScheduleIds : DeleteSchedule(id)
    \/ Ready /\ slst.pc = "idle"
             /\ \E p \in Pages, l \in PageSizes, y \in QueryStyles :
                    ListStart(NoHeader, PageQuery(p, l, y))
    \/ Ready /\ ListPage
    \/ Ready /\ lst.pc = "idle" /\ StudentsUntouched
             /\ \E p \in Pages, l \in PageSizes, y \in ScheduleQueryStyles :
                    ScheduleListStart(PageQuery(p, l, y))
    \/ Ready /\ ScheduleListPage

SpecListWrites == InitNoEnv /\ [][NextListWrites]_vars

(* ------------------------------ claims -------------------------------- *)

\* Registration r sends its response in this step.
RegisterAnswers(r) ==
    /\ reg[r].pc # "done"
    /\ reg'[r].pc = "done"
    /\ res'.op = "register"

\* C1: registration is all-or-nothing. When a registration is answered,
\* either the answer is 201 and the student row the request inserted and
\* the guardian row it links to are persisted, or the answer is 400 or 500
\* and neither the student row nor a guardian row inserted by the request
\* is persisted; this covers a failure of the re-read after COMMIT.
C1_AllOrNothing ==
    [][\A r \in Regs : RegisterAnswers(r) =>
          IF res'.status = 201
          THEN \E s \in students' :
                  /\ s.id = reg[r].newStudentId
                  /\ \E g \in guardians' : g.id = s.guardian_id
          ELSE /\ res'.status \in {400, 500}
               /\ ~ \E s \in students' : s.id = reg[r].newStudentId
               /\ ~ \E g \in guardians' : g.id \in reg[r].guardianResult
      ]_vars

\* The student INSERT of registration r was rejected as a duplicate.
HitDuplicate(r) == reg[r].pc = "rollback" /\ reg[r].err.code = "23505"

DuplicateMessages ==
    {"A student with this email already exists.",
     "A student with this admission number already exists."}

\* C2: a registration whose student email or admission number already
\* exists gets no response other than 400 with the duplicate message, and
\* the handler's end leaves both tables as they were: no student row of
\* the request and not the guardian row it inserted earlier in the
\* transaction is persisted.
C2_DuplicateLeavesNoRow ==
    [][\A r \in Regs : (HitDuplicate(r) /\ reg'[r].pc = "done") =>
          /\ res'.op = "register" =>
                res'.status = 400 /\ res'.body \in DuplicateMessages
          /\ students' = students
          /\ guardians' = guardians
          /\ ~ \E g \in guardians' : g.id \in reg[r].guardianResult
          /\ \A q \in Regs : reg[r].txG \cap reg'[q].txG = {}
      ]_vars

\* A registration that inserted a new guardian in its transaction hit a
\* duplicate student and is about to roll back.
C2_Witness ==
    \E r \in Regs : HitDuplicate(r) /\ reg[r].txG # {} /\ students # {}

\* C3: guardian reuse. When a registration commits and a guardian with the
\* submitted guardian email already exists, the commit adds no guardian row
\* and the student it adds references the existing guardian with that email.
C3_GuardianReuse ==
    [][\A r \in Regs, g \in guardians :
          (reg[r].pc = "commit" /\ reg'[r].pc = "reread"
             /\ g.email = reg[r].body.guardianEmail) =>
          /\ guardians' = guardians
          /\ \E s \in students' \ students :
                s.id = reg'[r].newStudentId /\ s.guardian_id = g.id
      ]_vars

\* Two students share the one guardian row.
C3_Witness ==
    /\ Cardinality(guardians) = 1
    /\ Cardinality(students) = 2
    /\ \A s \in students : \E g \in guardians : s.guardian_id = g.id

\* C4: every persisted student row references exactly one guardian row
\* that exists, after any sequence of registrations, updates and deletes.
C4_StudentHasGuardian ==
    \A s \in students :
        Cardinality({g \in guardians : g.id = s.guardian_id}) = 1

\* A student was deleted and another one, of the same guardian, remains.
C4_Witness ==
    /\ res.op = "delete"
    /\ res.status = 200
    /\ students # {}
    /\ Cardinality(guardians) = 1
    /\ studentSeq = 2

Unique(rows, col) == \A x, y \in rows : x # y => x[col] # y[col]

\* PUT /students/:id with body p would give the row a value of a unique
\* column that another row holds.
WouldCollide(id, p) ==
    /\ \E s \in students : s.id = id
    /\ UpdateError(p) = ""
    /\ \E o \in students :
          /\ o.id # id
          /\ \/ p.email # Undefined /\ o.email = p.email
             \/ p.admissioNo # Undefined /\ o.admissioNo = p.admissioNo

\* C5: student emails, admission numbers and ids and guardian emails stay
\* unique under every interleaving of registrations and updates; a
\* registration or an update that would break the uniqueness of students
\* is answered 400 with the duplicate message and changes no row.
C5_Uniqueness ==
    [][/\ Unique(students', "email") /\ Unique(students', "admissioNo")
       /\ Unique(students', "id") /\ Unique(guardians', "email")
       /\ \A r \in Regs : (HitDuplicate(r) /\ reg'[r].pc = "done") =>
             /\ res'.op = "register" /\ res'.status = 400
             /\ res'.body \in DuplicateMessages
             /\ students' = students /\ guardians' = guardians
       /\ (res'.op = "update" /\ WouldCollide(res'.req.id, res'.req.body)) =>
             /\ res'.status = 400
             /\ res'.body = "This email or admission number is already in use."
             /\ students' = students /\ guardians' = guardians
      ]_vars

\* An update was refused as a duplicate while two students exist.
C5_Witness ==
    /\ res.op = "update"
    /\ res.status = 400
    /\ res.body = "This email or admission number is already in use."
    /\ Cardinality(students) = 2

\* C6: a successful DELETE /students/:id removes the student row and the
\* guardian row it referenced.
C6_DeleteRemovesGuardian ==
    [][\A id \in StudentIds, s \in students :
          (s.id = id /\ DeleteStudent(id)) =>
          /\ res'.status = 200
          /\ ~ \E x \in students' : x.id = id
          /\ ~ \E g \in guardians' : g.id = s.guardian_id
      ]_vars

\* C7: right after a registration is answered 201, GET /students/:id of
\* the new student answers 200 with the submitted values of the student
\* columns it selects and with the name and email of the guardian row
\* whose email is the submitted guardian email.
C7_FetchAfterRegister ==
    [][\A r \in Regs : (RegisterAnswers(r) /\ res'.status = 201) =>
          \E id \in StudentIds :
          LET got == GetStudentResponse(id)'
              b == reg[r].body
          IN
          /\ id = reg[r].newStudentId
          /\ got.status = 200
          /\ got.body.id = id
          /\ got.body.firstName = b.firstName
          /\ got.body.admissioNo = b.admissioNo
          /\ got.body.email = b.email
          /\ got.body.guardian_email = b.guardianEmail
          /\ \E g \in guardians' :
                /\ g.email = b.guardianEmail
                /\ got.body.guardian_name = g.name
          /\ res'.body = got.body
      ]_vars

\* A registered student was fetched, its guardian being one that an
\* earlier registration created under another name.
C7_Witness ==
    /\ res.op = "get"
    /\ res.status = 200
    /\ res.body.id = 2
    /\ Cardinality(guardians) = 1
    /\ \E s \in students : s.id = 1 /\ s.firstName # res.body.firstName

\* The kinds of Authorization header the guard must turn away.
Missing(header) == header.scheme # "Bearer" \/ header.token = <<>>
Expired(header) ==
    /\ ~ Missing(header)
    /\ header.token[1].key = SignSecret
    /\ header.token[1].exp <= now
Tampered(header) == ~ Missing(header) /\ header.token[1].key # SignSecret

\* C8: GET /students is protected. A request without a bearer token is
\* answered 401, one with an expired token 401 'Token expired', one with a
\* tampered token 403, and to none of them the student list is returned.
C8_ListProtected ==
    [][/\ \A h \in Headers, q \in ListQueries : ListStart(h, q) =>
             /\ Missing(h) => res'.status = 401
             /\ Expired(h) => res'.status = 401 /\ res'.body = "Token expired"
             /\ Tampered(h) => res'.status = 403
       /\ (lst.pc = "page" /\ res'.op = "list" /\ res'.status = 200) =>
             ~ (Missing(lst.header) \/ Expired(lst.header)
                  \/ Tampered(lst.header))
      ]_vars

\* Email e matches no student.
UnknownEmail(e) == ~ \E s \in students : s.email = e
\* Email e matches a student whose password is not pw (or pw is absent).
WrongPassword(e, pw) ==
    \E s \in students : s.email = e /\ s.password # BcryptHash(pw)

\* C9: login does not distinguish an unknown email from a wrong password.
\* A login with an existing email and a non-matching or absent password
\* gets the answer, status and body, that a login with an unknown email
\* gets, which is 401.
C9_LoginIndistinguishable ==
    [][\A e \in LoginEmails, pw \in LoginPasswords :
          (Login(e, pw) /\ WrongPassword(e, pw)) =>
          /\ res'.status = 401
          /\ \A e0 \in LoginEmails, pw0 \in LoginPasswords :
                UnknownEmail(e0) =>
                   /\ res'.status = LoginResponse(e0, pw0).status
                   /\ res'.body = LoginResponse(e0, pw0).body
      ]_vars

\* C10: a login with the email and password of a registered student is
\* answered 200 with a token whose claims are that student's id, email and
\* first name, the role 'student' and an expiry one hour after issuance;
\* every other login is answered without a token.
C10_TokenOnSuccessOnly ==
    [][\A e \in LoginEmails, pw \in LoginPasswords : Login(e, pw) =>
          IF \E s \in students : s.email = e /\ pw # Undefined
                                   /\ s.password = BcryptHash(pw)
          THEN /\ res'.status = 200
               /\ \E s \in students :
                     /\ s.email = e
                     /\ res'.body.id = s.id
                     /\ res'.body.email = s.email
                     /\ res'.body.name = s.firstName
               /\ res'.body.role = "student"
               /\ res'.body.iat = now
               /\ res'.body.exp = res'.body.iat + 60 * 60
          ELSE /\ res'.status \in {401, 500}
               /\ res'.body \in {"Invalid email or password",
                                 "Internal server error during login"}
      ]_vars

\* A login succeeded after the clock advanced, a second student existing.
C10_Witness ==
    /\ res.op = "login"
    /\ res.status = 200
    /\ res.body.iat > 0
    /\ Cardinality(students) = 2

\* The token of header h verifies under the guard's secret (signature
\* only), and its expiry has passed or not.
GuardKey(header) ==
    /\ ~ Missing(header)
    /\ jwtSecretEnv # Undefined
    /\ header.token[1].key = jwtSecretEnv

\* C11: the auth guard has exactly one of four outcomes. A header that is
\* missing, not 'Bearer ' or without a token is answered 401; a token
\* signed with the guard's secret whose expiry has passed is answered 401
\* 'Token expired'; a token that fails verification otherwise is answered
\* 403; a token that verifies is passed to the next handler with its
\* claims as req.user. The next handler is called on no failure outcome.
C11_GuardOutcomes ==
    [][res'.op \in {"guard", "next"} =>
          LET h == res'.req IN
          /\ Missing(h) =>
                /\ res'.op = "guard" /\ res'.status = 401
                /\ res'.body \in {"Authorization header missing or malformed",
                                  "Access denied, token required"}
          /\ (GuardKey(h) /\ h.token[1].exp <= now) =>
                /\ res'.op = "guard" /\ res'.status = 401
                /\ res'.body = "Token expired"
          /\ (~ Missing(h) /\ ~ GuardKey(h)) =>
                /\ res'.op = "guard" /\ res'.status = 403
                /\ res'.body = "Invalid token"
          /\ (GuardKey(h) /\ now < h.token[1].exp) =>
                /\ res'.op = "next"
                /\ res'.body = h.token[1]
      ]_vars

\* An expired token was turned away after the clock advanced.
C11_Witness ==
    /\ res.op = "guard"
    /\ res.status = 401
    /\ res.body = "Token expired"
    /\ now > 0

\* C12: a partial update changes only the supplied fields. After a PUT
\* /students/:id or PUT /schedules/:id answered 200, every column of the
\* target row whose field the body lacks has its former value, every
\* supplied field has the supplied value (the password its hash), and no
\* other student, guardian or schedule row is changed.
C12_PartialUpdate ==
    [][/\ (res'.op = "update" /\ res'.status = 200) =>
             \E old \in students, new \in students' :
                /\ old.id = res'.req.id
                /\ new.id = res'.req.id
                /\ \A f \in {"firstName", "admissioNo", "email"} :
                      new[f] = IF res'.req.body[f] # Undefined
                               THEN res'.req.body[f] ELSE old[f]
                /\ new.password = IF res'.req.body.password # Undefined
                                  THEN BcryptHash(res'.req.body.password)
                                  ELSE old.password
                /\ new.guardian_id = old.guardian_id
                /\ students' \ {new} = students \ {old}
                /\ guardians' = guardians
                /\ schedules' = schedules
       /\ (res'.op = "updateSchedule" /\ res'.status = 200) =>
             \E old \in schedules, new \in schedules' :
                /\ old.id = res'.req.id
                /\ new.id = res'.req.id
                /\ \A f \in ScheduleFields :
                      new[f] = IF res'.req.body[f] # Undefined
                               THEN res'.req.body[f] ELSE old[f]
                /\ schedules' \ {new} = schedules \ {old}
                /\ students' = students
                /\ guardians' = guardians
      ]_vars

\* A schedule was updated beside another schedule.
C12_Witness ==
    /\ res.op = "updateSchedule"
    /\ res.status = 200
    /\ Cardinality(schedules) = 2
    /\ \E f \in ScheduleFields : res.req.body[f] = Undefined

\* C13: a PUT /students/:id or PUT /schedules/:id whose body supplies no
\* recognized field is answered 400 and leaves every row unchanged,
\* whether or not the id exists.
C13_EmptyUpdateRejected ==
    [][/\ (res'.op = "update"
            /\ \A f \in UpdateFields : res'.req.body[f] = Undefined) =>
             /\ res'.status = 400
             /\ res'.body \in {"No fields to update.",
                               "\"guardianName\" is not allowed"}
             /\ students' = students /\ guardians' = guardians
             /\ schedules' = schedules
       /\ (res'.op = "updateSchedule"
            /\ \A f \in ScheduleFields : res'.req.body[f] = Undefined) =>
             /\ res'.status = 400
             /\ res'.body \in {"No fields to update.",
                               "\"guardianName\" is not allowed"}
             /\ students' = students /\ guardians' = guardians
             /\ schedules' = schedules
      ]_vars

\* An update of an existing student without a field was refused.
C13_Witness ==
    /\ res.op = "update"
    /\ res.status = 400
    /\ res.body = "No fields to update."
    /\ \E s \in students : s.id = res.req.id

\* C14: an update with a valid body of at least one field, or a delete,
\* that targets an id without a row is answered 404 and changes no table.
C14_NotFound ==
    [][/\ (/\ res'.op = "update"
            /\ UpdateError(res'.req.body) = ""
            /\ Supplied(res'.req.body) # {}
            /\ ~ \E x \in students : x.id = res'.req.id)
          => (res'.status = 404 /\ students' = students
                /\ guardians' = guardians /\ schedules' = schedules)
       /\ (res'.op = "delete" /\ ~ \E x \in students : x.id = res'.req)
          => (res'.status = 404 /\ students' = students
                /\ guardians' = guardians /\ schedules' = schedules)
       /\ (/\ res'.op = "updateSchedule"
            /\ ScheduleUpdateError(res'.req.body) = ""
            /\ \E f \in ScheduleFields : res'.req.body[f] # Undefined
            /\ ~ \E x \in schedules : x.id = res'.req.id)
          => (res'.status = 404 /\ students' = students
                /\ guardians' = guardians /\ schedules' = schedules)
       /\ (res'.op = "deleteSchedule"
            /\ ~ \E x \in schedules : x.id = res'.req)
          => (res'.status = 404 /\ students' = students
                /\ guardians' = guardians /\ schedules' = schedules)
      ]_vars

\* An update of a deleted schedule was answered 404 beside another one.
C14_Witness ==
    /\ res.op = "updateSchedule"
    /\ res.status = 404
    /\ scheduleSeq = 2
    /\ Cardinality(schedules) = 1

\* The password column of row s holds a bcrypt hash.
Hashed(s) == s.password[1] = "bcrypt"

\* C15: plaintext passwords are never stored. The password column of every
\* student row holds a hash; a registration stores the hash of the
\* submitted password and an update that supplies a password the hash of
\* that one, after which a login with it succeeds and a login with any
\* other password, a previous one included, does not; no other step
\* changes a stored password.
C15_PasswordsHashed ==
    [][/\ \A s \in students' : Hashed(s)
       /\ \A r \in Regs :
             (reg[r].pc = "commit" /\ reg'[r].pc = "reread") =>
             \E s \in students' \ students :
                /\ s.password = BcryptHash(reg[r].body.password)
                /\ \A pw \in LoginPasswords :
                      (LoginResponse(s.email, pw)'.status = 200)
                         <=> (pw = reg[r].body.password)
       /\ (/\ res'.op = "update" /\ res'.status = 200
            /\ res'.req.body.password # Undefined) =>
             \E s \in students' :
                /\ s.id = res'.req.id
                /\ s.password = BcryptHash(res'.req.body.password)
                /\ \A pw \in LoginPasswords :
                      (LoginResponse(s.email, pw)'.status = 200)
                         <=> (pw = res'.req.body.password)
       /\ \A s \in students, t \in students' :
             (s.id = t.id /\ s.password # t.password) =>
                /\ res'.op = "update" /\ res'.status = 200
                /\ res'.req.id = s.id
                /\ res'.req.body.password # Undefined
       /\ (res'.op = "login" /\ res'.status = 200) =>
             \E s \in students :
                /\ s.email = res'.req.email
                /\ s.password = BcryptHash(res'.req.password)
      ]_vars

\* A login with the password an update replaced was turned away.
C15_Witness ==
    /\ res.op = "login"
    /\ res.status = 401
    /\ \E s \in students :
          /\ s.email = res.req.email
          /\ s.firstName = "Ann"
          /\ res.req.password = "secret1"
          /\ s.password = BcryptHash("secret2")

\* The rows at positions (p-1)*l+1 .. min(p*l, N) of the N rows in one of
\* the orders the requested sort allows.
PageOf(rows, col, query, listed) ==
    LET N == Cardinality(rows)
        first == (query.page - 1) * query.limit + 1
        last == Min(query.page * query.limit, N)
    IN \E q \in Ordered(rows, col, OrderDirection(query.sortOrder)) :
          /\ Len(listed) = (IF last >= first THEN last - first + 1 ELSE 0)
          /\ \A i \in 1..Len(listed) : listed[i] = q[first + i - 1]

\* ceil(N / l): the least number of pages of l rows that hold N rows.
PagesFor(N, l) == CHOOSE k \in 0..N : k * l >= N /\ (k = 0 \/ (k - 1) * l < N)

\* C16: a list request for page p >= 1 with limit l >= 1 over N matching
\* rows is answered 200 with exactly the rows at positions (p-1)*l+1 ..
\* min(p*l, N) of the matches in the requested sort order, a total of N and
\* totalPages = ceil(N / l), for students and for schedules.
C16_Pagination ==
    /\ (res.op = "list" /\ res.req.query.limit >= 1) =>
          LET query == res.req.query
              rows == Matching(query.search)
          IN /\ res.status = 200
             /\ PageOf(rows, OrderByColumn(query.sortBy), query,
                       res.body.students)
             /\ res.body.totalStudents = Cardinality(rows)
             /\ res.body.totalPages = PagesFor(Cardinality(rows), query.limit)
    /\ (res.op = "listSchedules" /\ res.req.limit >= 1) =>
          LET query == res.req
              rows == MatchingSchedules(query.search)
          IN /\ res.status = 200
             /\ PageOf(rows, ScheduleOrderByColumn(query.sortBy), query,
                       res.body.schedules)
             /\ res.body.totalSchedules = Cardinality(rows)
             /\ res.body.totalPages = PagesFor(Cardinality(rows), query.limit)

\* The second page of one row out of two matching students.
C16_Witness ==
    /\ res.op = "list"
    /\ res.req.query.page = 2 /\ res.req.query.limit = 1
    /\ res.status = 200
    /\ Len(res.body.students) = 1
    /\ res.body.totalStudents = 2 /\ res.body.totalPages = 2

\* C17: a list request (students or schedules) with a page size of 0 or a
\* negative page size is answered with an error status, never with 200.
C17_NonPositiveLimitRejected ==
    /\ (res.op = "list" /\ res.req.query.limit <= 0) => res.status >= 400
    /\ (res.op = "listSchedules" /\ res.req.limit <= 0) => res.status >= 400

\* No row matches the search term.
NoStudentMatches(search) ==
    /\ search # ""
    /\ \A s \in students : ToLowerCase(s.firstName) # ToLowerCase(search)
                           /\ ToLowerCase(s.email) # ToLowerCase(search)

NoScheduleMatches(search) ==
    /\ search # ""
    /\ \A x \in schedules : ToLowerCase(x.title) # ToLowerCase(search)
                            /\ ToLowerCase(x.category) # ToLowerCase(search)

\* C18: a list request with page >= 1 and limit >= 1 whose offset lies beyond
\* the matching rows, or whose search term matches no row, is answered 200
\* with an empty list, and with a total of 0 when nothing matches.
C18_EmptyPage ==
    /\ (res.op = "list" /\ res.req.query.limit >= 1) =>
          LET query == res.req.query
              none == NoStudentMatches(query.search)
              beyond == (query.page - 1) * query.limit
                           >= Cardinality(Matching(query.search))
          IN (none \/ beyond) =>
                /\ res.status = 200
                /\ res.body.students = <<>>
                /\ none => res.body.totalStudents = 0
    /\ (res.op = "listSchedules" /\ res.req.limit >= 1) =>
          LET query == res.req
              none == NoScheduleMatches(query.search)
              beyond == (query.page - 1) * query.limit
                           >= Cardinality(MatchingSchedules(query.search))
          IN (none \/ beyond) =>
                /\ res.status = 200
                /\ res.body.schedules = <<>>
                /\ none => res.body.totalSchedules = 0

\* The second page of a search that matches none of the stored students.
C18_Witness ==
    /\ res.op = "list"
    /\ students # {}
    /\ res.req.query.search = "zzz" /\ res.req.query.page = 2
    /\ res.req.query.limit = 1
    /\ res.status = 200
    /\ res.body.students = <<>> /\ res.body.totalStudents = 0

\* The words of the two page queries that do not depend on the request.
FixedText ==
    {"SELECT s.*, g.* FROM students s LEFT JOIN guardians g",
     "SELECT * FROM schedules", "WHERE", "ILIKE", "ORDER BY", "LIMIT",
     "OFFSET", "$1", "$2", "$3"}

\* The text orders by a column of the allow-list, the requested one when it
\* is listed and the default otherwise, in the direction ASC or DESC, and
\* holds nothing else that depends on the request; the search term, the
\* limit and the offset are bound parameters.
SafeQuery(text, params, query, columns, default) ==
    /\ \E k \in 1..(Len(text) - 2) :
          /\ text[k] = "ORDER BY"
          /\ text[k + 1] \in columns
          /\ text[k + 1] = (IF query.sortBy \in columns THEN query.sortBy
                            ELSE default)
          /\ text[k + 2] \in {"ASC", "DESC"}
          /\ \A i \in 1..Len(text) :
                i \notin {k + 1, k + 2} => text[i] \in FixedText
    /\ query.search # "" => params[1] = [like |-> query.search]
    /\ params[Len(params) - 1] = [value |-> query.limit]
    /\ params[Len(params)] = [value |-> (query.page - 1) * query.limit]

\* C19: for every sortBy and sortOrder, the text of the page query orders by
\* a column of the resource's allow-list (the default column when sortBy is
\* not listed) in the direction ASC or DESC, and the search term, the limit
\* and the offset are bound parameters that the text does not contain.
C19_QueryText ==
    /\ lst.pc = "page" =>
          SafeQuery(ListQueryText(lst.query), ListQueryParams(lst.query),
                    lst.query, validSortColumns, "lastName")
    /\ slst.pc = "page" =>
          SafeQuery(ScheduleQueryText(slst.query),
                    ScheduleQueryParams(slst.query), slst.query,
                    scheduleSortColumns, "start_date")

\* A students page query is about to run for a request whose sortBy and
\* sortOrder carry SQL text.
C19_Witness ==
    /\ lst.pc = "page"
    /\ lst.query.sortBy = "email; DROP TABLE students"
    /\ lst.query.sortOrder = "desc; DROP TABLE students"
    /\ lst.query.search = "zzz"

\* The registrations between pool.connect() and client.release().
Holding == {r \in Regs : reg[r].pc \in QuerySteps \cup {"rollback"}}

\* C20: the checked-out connections are exactly those of the registrations
\* that are between their pool.connect() and the end of their handler: each
\* handler that acquired a connection has released it once when it finishes,
\* on success, on failure and when ROLLBACK itself fails, and when every
\* registration has finished no connection is checked out.
C20_ConnectionsReleased ==
    /\ checkedOut = Cardinality(Holding)
    /\ (\A r \in Regs : reg[r].pc \in {"idle", "done"}) => checkedOut = 0

\* Every registration has finished, one of them after its student INSERT
\* drew an id and its transaction was abandoned, and no connection is out.
C20_Witness ==
    /\ \A r \in Regs : reg[r].pc = "done"
    /\ studentSeq >= 1
    /\ students = {}
    /\ checkedOut = 0

\* No table changed, no sequence advanced and no connection was taken or
\* given back in the step.
StorageUntouched ==
    UNCHANGED <<students, guardians, studentSeq, guardianSeq, schedules,
                scheduleSeq, checkedOut>>

\* C21: validation precedes storage. A register, student update, schedule
\* create or schedule update request whose body fails its schema is
\* answered 400 with the message of the first rule that fails, in the step
\* that takes the request: before a connection is acquired or a query is
\* issued, with every table as it was.
C21_ValidationFirst ==
    [][/\ (res'.op = "register" /\ RegistrationError(res'.req) # "") =>
             /\ res'.status = 400
             /\ res'.body = RegistrationError(res'.req)
             /\ res'.req.password = Undefined =>
                   res'.body = "\"password\" is required"
             /\ \E r \in Regs : reg[r].pc = "idle" /\ reg'[r].pc = "done"
             /\ StorageUntouched
       /\ (res'.op = "update" /\ UpdateError(res'.req.body) # "") =>
             /\ res'.status = 400
             /\ res'.body = UpdateError(res'.req.body)
             /\ StorageUntouched
       /\ (res'.op = "createSchedule" /\ ScheduleError(res'.req) # "") =>
             /\ res'.status = 400
             /\ res'.body = ScheduleError(res'.req)
             /\ StorageUntouched
       /\ (res'.op = "updateSchedule"
             /\ ScheduleUpdateError(res'.req.body) # "") =>
             /\ res'.status = 400
             /\ res'.body = ScheduleUpdateError(res'.req.body)
             /\ StorageUntouched
      ]_vars

\* A body that breaks two rules was refused with the message of the first
\* while another registration held a connection and a student was stored.
C21_Witness ==
    /\ res.op = "register"
    /\ res.status = 400
    /\ res.req.password = Undefined /\ res.req.guardianEmail = Undefined
    /\ res.body = "\"password\" is required"
    /\ checkedOut = 1
    /\ students # {}

\* C22: every catch path logs and answers. A registration whose catch
\* block sends the response has written the error with console.error in the
\* same step, and so has an update that answers a caught unique violation;
\* nothing is logged in a step in which the handler sends no response.
C22_CatchLogsAndAnswers ==
    [][/\ \A r \in Regs :
             (reg[r].pc = "rollback" /\ reg'[r].pc = "done"
                 /\ res'.op = "register") => logged' # ""
       /\ (res'.op = "update" /\ res'.status = 400 /\ res'.body =
             "This email or admission number is already in use.") =>
             logged' # ""
       /\ logged' # "" => res'.op \notin {"none", "finalhandler"}
      ]_vars

\* C23: token round trip. The token a successful login issues carries the
\* id and email of the student who logged in, and the auth guard accepts it
\* (next is called with req.user carrying that id and email) at the time of
\* issue and at every later time before its expiry, whether or not
\* JWT_SECRET is set.
C23_TokenRoundTrip ==
    (res.op = "login" /\ res.status = 200) =>
        LET token == res.body
            g == AuthMiddleware(Bearer(<<token>>))
        IN /\ \E s \in students : s.id = token.id /\ s.email = token.email
                                      /\ s.email = res.req.email
           /\ g.next
           /\ g.body.id = token.id /\ g.body.email = token.email
           /\ \A k \in 0..MaxTicks :
                 (token.iat <= k * TickSeconds /\ k * TickSeconds < token.exp)
                     => JwtVerify(token, VerifySecret, k * TickSeconds) = "ok"

\* C24: under every interleaving of concurrent registrations, those with one
\* new guardian email and different student emails and admission numbers
\* included, no registration fails with 'Failed to create or find
\* guardian.', no two guardian rows share an email, and a student that a
\* registration commits references the guardian row that holds the
\* submitted guardian email.
C24_SharedGuardianRace ==
    [][/\ \A r \in Regs : reg'[r].err # GuardianErr
       /\ Unique(guardians', "email")
       /\ \A r \in Regs :
             (reg[r].pc = "commit" /\ reg'[r].pc = "reread") =>
                \A s \in reg[r].txS : \E g \in guardians' :
                    /\ g.id = s.guardian_id
                    /\ g.email = reg[r].body.guardianEmail
      ]_vars

\* Two registrations of different students under one guardian email are in
\* flight: the first inserted the guardian row and committed, the second
\* found the conflict, selected that row and is about to insert its student.
C24_Witness ==
    /\ reg[1].pc = "reread" /\ reg[2].pc = "insertStudent"
    /\ reg[1].body.guardianEmail = reg[2].body.guardianEmail
    /\ reg[1].body.email # reg[2].body.email
    /\ reg[1].body.admissioNo # reg[2].body.admissioNo
    /\ reg[2].guardianResult = {}
    /\ reg[2].guardianId \in reg[1].guardianResult
    /\ Cardinality(guardians) = 1

\* C25: every registration request receives exactly one response. The step
\* in which a registration handler ends, on whichever path (validation
\* failure, success, a rejected query, a rejected pool.connect(), a rejected
\* ROLLBACK, a unique violation on any constraint), sends a response to it,
\* and no other step of the handler sends one.
C25_OneResponse ==
    [][\A r \in Regs :
          /\ (reg[r].pc # "done" /\ reg'[r].pc = "done") =>
                res'.op \in {"register", "finalhandler"}
          /\ (reg'[r] # reg[r] /\ reg'[r].pc # "done") => res'.op = "none"
      ]_vars

\* The number of rows of page `page` of `limit` rows out of `total` rows.
RowsOnPage(total, page, limit) ==
    LET rest == total - (page - 1) * limit IN
    IF rest <= 0 THEN 0 ELSE Min(limit, rest)

\* C26: the list response is consistent under concurrent writes. For every
\* interleaving of a list request with registrations, updates and deletions,
\* the total of a 200 response is the number of matching rows in the store
\* the page was read from, the page holds as many rows as that total leaves
\* for it, and totalPages is the number of pages of that total.
C26_ListConsistent ==
    /\ (res.op = "list" /\ res.status = 200 /\ res.req.query.limit >= 1) =>
          LET query == res.req.query
              total == res.body.totalStudents
          IN /\ total = Cardinality(Matching(query.search))
             /\ Len(res.body.students)
                   = RowsOnPage(total, query.page, query.limit)
             /\ res.body.totalPages = PagesFor(total, query.limit)
    /\ (res.op = "listSchedules" /\ res.status = 200 /\ res.req.limit >= 1) =>
          LET query == res.req
              total == res.body.totalSchedules
          IN /\ total = Cardinality(MatchingSchedules(query.search))
             /\ Len(res.body.schedules)
                   = RowsOnPage(total, query.page, query.limit)
             /\ res.body.totalPages = PagesFor(total, query.limit)

====
